---- MODULE Spec2Model ----
\* Model of basel's module-component loader (src/src/components.py):
\* discovery of the source modules under a root, extraction of their imports,
\* the bidirectional dependency graph, the type classification and the
\* instability / abstraction / distance metrics.
\*
\* Conventions.
\*   - A dotted module name "pkg.sub.mod" is the sequence <<"pkg","sub","mod">>.
\*   - A path "pkg/sub/mod.py" is the record
\*       [parent |-> <<"pkg","sub">>, stem |-> "mod", suffix |-> ".py"].
\*   - The analysed tree is walked from the current directory, which is also on
\*     the interpreter's import path, so a file's derived name is the name
\*     under which the interpreter imports it.
\*   - Importing a module that exists succeeds: an import of an absent target
\*     inside a module is taken to be guarded in that module's source (the
\*     optional-dependency idiom); the syntax tree walk still sees it.
EXTENDS Integers, Sequences, FiniteSets, TLC

VARIABLES
    fs,          \* environment: the set of files under the root
    source,      \* environment: the content of each source file
    order,       \* ComponentLoader.components: the keys, in insertion order
    units,       \* ComponentLoader.components: name -> ModuleComponent
    ignoreArg,   \* the caller's ignore_dependencies of the current run
    err,         \* "none", or the exception that left the last operation
    loaded,      \* load_components has completed on this loader
    result,      \* the operation last invoked, and what it returned
    comp,        \* a ModuleComponent built on its own from a path
    back,        \* the ModuleComponent built from comp's name
    dep,         \* the syntax-tree node last given to _eval_dependency
    imports      \* what _eval_dependency returned for dep

vars == <<fs, source, order, units, ignoreArg, err, loaded, result,
          comp, back, dep, imports>>

-----------------------------------------------------------------------------
\* Bounds of the model.

\* Longest alias list of one import statement.
MaxAliases == 2

\* Largest `decimals` argument given to calculate_main_distance.
MaxDecimals == 2

-----------------------------------------------------------------------------
\* Sequences and rationals.

Range(s) == {s[i] : i \in 1..Len(s)}

Front(s) == SubSeq(s, 1, Len(s) - 1)

Last(s) == s[Len(s)]

RECURSIVE GCD(_, _)
GCD(a, b) == IF b = 0 THEN a ELSE GCD(b, a % b)

Abs(x) == IF x < 0 THEN -x ELSE x

\* A rational is <<numerator, denominator>> in lowest terms, denominator > 0.
Rat(n, d) ==
    LET g == GCD(Abs(n), Abs(d))
        s == IF d < 0 THEN -1 ELSE 1
    IN  <<(s * n) \div g, (s * d) \div g>>

RatAdd(a, b) == Rat(a[1] * b[2] + b[1] * a[2], a[2] * b[2])

RatSub(a, b) == Rat(a[1] * b[2] - b[1] * a[2], a[2] * b[2])

RatAbs(a) == <<Abs(a[1]), a[2]>>

RatLeq(a, b) == a[1] * b[2] <= b[1] * a[2]

RECURSIVE Pow10(_)
Pow10(k) == IF k = 0 THEN 1 ELSE 10 * Pow10(k - 1)

RECURSIVE RatSum(_)
RatSum(s) == IF s = <<>> THEN <<0, 1>> ELSE RatAdd(s[1], RatSum(Tail(s)))

\* No cached value yet.
NoValue == <<>>

-----------------------------------------------------------------------------
\* The environment: files, their content, and what the interpreter can import.

Path(parent, stem, suffix) == [parent |-> parent, stem |-> stem, suffix |-> suffix]

PkgInit == Path(<<"pkg">>, "__init__", ".py")
PkgSubPy == Path(<<"pkg">>, "sub", ".py")
SubInit == Path(<<"pkg", "sub">>, "__init__", ".py")
SubMod == Path(<<"pkg", "sub">>, "mod", ".py")
SubNotes == Path(<<"pkg", "sub">>, "notes", ".txt")

Files == {PkgInit, PkgSubPy, SubInit, SubMod, SubNotes}

\* Modules of the installation, importable whatever the tree holds.
Installed == {<<"os">>, <<"os", "path">>, <<"abc">>, <<"typing">>}

IsPrefix(s, t) == Len(s) <= Len(t) /\ SubSeq(t, 1, Len(s)) = s

DirExists(tree, d) == \E f \in tree : IsPrefix(d, f.parent)

ModuleFile(n) == Path(Front(n), Last(n), ".py")

PackageFile(n) == Path(n, "__init__", ".py")

\* importlib.import_module(name) succeeds: a file or directory of that dotted
\* name exists below the current directory (a directory without a marker file
\* is a namespace package), or the installation provides it.
Importable(tree, n) ==
    \/ n \in Installed
    \/ /\ n # <<>>
       /\ \A k \in 1..(Len(n) - 1) : DirExists(tree, SubSeq(n, 1, k))
       /\ \/ DirExists(tree, n)
          \/ ModuleFile(n) \in tree

\* The file the interpreter executes for a name: a package's marker file
\* takes precedence over a module file of the same name.
ResolvedFile(tree, n) ==
    IF PackageFile(n) \in tree THEN PackageFile(n) ELSE ModuleFile(n)

\* What import_module returns: a module object, whose origin is a package
\* (a directory) or a plain module (a file).
ImportedObject(tree, n) ==
    [name |-> n,
     origin |-> IF n \notin Installed /\ (PackageFile(n) \in tree
                    \/ (ModuleFile(n) \notin tree /\ DirExists(tree, n)))
                THEN "package" ELSE "module"]

-----------------------------------------------------------------------------
\* Component (the base class): the fields every component starts with.

Component(name, path) ==
    [name |-> name,
     path |-> path,
     external_dependencies |-> {},
     internal_dependencies |-> {},
     abstract_classes |-> <<>>,
     no_abstract_classes |-> <<>>,
     instability |-> NoValue,
     abstraction |-> NoValue,
     distance |-> NoValue]

\* Component.add_dependency(component, is_internal)
add_dependency(c, d, is_internal) ==
    IF is_internal
    THEN [c EXCEPT !.internal_dependencies = @ \cup {d}]
    ELSE [c EXCEPT !.external_dependencies = @ \cup {d}]

\* Component.add_class(_class, is_abstract)
add_class(c, cls, is_abstract) ==
    IF is_abstract
    THEN [c EXCEPT !.abstract_classes = Append(@, cls)]
    ELSE [c EXCEPT !.no_abstract_classes = Append(@, cls)]

-----------------------------------------------------------------------------
\* ModuleComponent: names and paths.

\* inspect.ismodule(obj): true of every module object, a package's included.
ismodule(obj) == obj.origin \in {"module", "package"}

\* ModuleComponent._get_path_from_name, for a name import_module accepts.
_get_path_from_name(tree, name) ==
    LET obj == ImportedObject(tree, name)
    IN  IF ismodule(obj)
        THEN Path(Front(name), Last(name), ".py")
        ELSE Path(name, "__init__", ".py")

\* ModuleComponent._get_name_from_path
_get_name_from_path(path) ==
    LET parent_name == path.parent
    IN  IF path.stem = "__init__" /\ path.suffix = ".py"
        THEN parent_name
        ELSE Append(parent_name, path.stem)

\* ModuleComponent(path=path)
ModuleComponentOfPath(path) == Component(_get_name_from_path(path), path)

\* ModuleComponent(name=name) raises when import_module(name) does.
NameRaises(tree, name) == ~Importable(tree, name)

\* ModuleComponent(name=name), when it does not raise.
ModuleComponentOfName(tree, name) ==
    Component(name, _get_path_from_name(tree, name))

-----------------------------------------------------------------------------
\* ModuleComponent: the imports of a source file.

Import(names) == [type |-> "Import", module |-> <<>>, names |-> names]

ImportFrom(module, names) ==
    [type |-> "ImportFrom", module |-> module, names |-> names]

OtherNode == [type |-> "Other", module |-> <<>>, names |-> <<>>]

\* ModuleComponent._import_module: the module, or nothing on ImportError.
_import_module(tree, module_path) == Importable(tree, module_path)

\* ModuleComponent._eval_dependency
_eval_dependency(tree, node) ==
    IF node.type = "Import"
    THEN {node.names[i] : i \in 1..Len(node.names)}
    ELSE IF node.type = "ImportFrom"
    THEN LET modules ==
                 {node.module \o node.names[i] : i \in
                    {j \in 1..Len(node.names) :
                        _import_module(tree, node.module \o node.names[j])}}
         IN  modules \cup
               (IF Cardinality(modules) # Len(node.names)
                THEN {node.module} ELSE {})
    ELSE {}

\* ModuleComponent.get_dependencies
get_dependencies(tree, src, path) ==
    UNION {_eval_dependency(tree, src[path].nodes[i]) :
             i \in 1..Len(src[path].nodes)}

\* ModuleComponent.depend_of
depend_of(c, component_name) ==
    \E d \in c.external_dependencies : d.name = component_name

-----------------------------------------------------------------------------
\* The contents a source file of the analysed tree may have: the import
\* nodes of its syntax tree, and the classes found among the members of the
\* imported module, in the order inspect.getmembers lists them. A class's
\* `module` is its __module__; <<>> stands for the module that declares it.

ClassDecl(cls, module, abstract) ==
    [cls |-> cls, module |-> module, abstract |-> abstract]

\* An empty module.
SrcEmpty == [nodes |-> <<>>, classes |-> <<>>]

\* import pkg.sub, typing
SrcPlain ==
    [nodes |-> <<Import(<<<<"pkg", "sub">>, <<"typing">>>>)>>,
     classes |-> <<>>]

\* from pkg.sub import mod, Base; import os; class Impl(Base) implementing it
SrcFrom ==
    [nodes |-> <<ImportFrom(<<"pkg", "sub">>, <<<<"mod">>, <<"Base">>>>),
                 OtherNode,
                 Import(<<<<"os">>>>)>>,
     classes |-> <<ClassDecl("Base", <<"pkg", "sub">>, TRUE),
                   ClassDecl("Impl", <<>>, FALSE)>>]

\* from abc import ABC; class Base(ABC) with an abstract method
SrcAbstract ==
    [nodes |-> <<ImportFrom(<<"abc">>, <<<<"ABC">>>>)>>,
     classes |-> <<ClassDecl("ABC", <<"abc">>, FALSE),
                   ClassDecl("Base", <<>>, TRUE)>>]

\* try: import ghost / except ImportError: ...   (ghost is not installed)
SrcOptional ==
    [nodes |-> <<Import(<<<<"ghost">>>>)>>, classes |-> <<>>]

Sources == {SrcEmpty, SrcPlain, SrcFrom, SrcAbstract, SrcOptional}

\* The ignore lists a caller may configure.
IgnoreLists == {{}, {<<"os">>, <<"ghost">>}, {<<"pkg", "sub">>}}

-----------------------------------------------------------------------------
\* ModuleComponentLoader: discovery.

\* ModuleComponentLoader._ignore_native_library: the built-in ignore list.
ignore_dependencies == {<<"abc">>, <<"typing">>}

\* ModuleComponentLoader._find_py_modules: the .py files of one directory.
_find_py_modules(tree, root) ==
    {f \in tree : f.parent = root /\ f.suffix = ".py"}

\* Variant: every visited directory counts, marker file or not.
PackageDirsUnmarked(tree) == {f.parent : f \in tree}

\* The directories os.walk visits that hold a package marker file.
PackageDirs(tree) ==
    {f.parent : f \in {g \in tree : g.stem = "__init__" /\ g.suffix = ".py"}}

\* ModuleComponentLoader.get_py_modules: the lists it may return. os.walk
\* visits a directory before its subdirectories and lists a directory's
\* files together; the listing order is the file system's.
get_py_modules(tree) ==
    LET found == UNION {_find_py_modules(tree, d) : d \in PackageDirs(tree)}
        n == Cardinality(found)
    IN  {s \in [1..n -> found] :
           /\ \A i, j \in 1..n : i # j => s[i] # s[j]
           /\ \A i, j \in 1..n :
                (i < j /\ s[i].parent = s[j].parent)
                   => \A k \in i..j : s[k].parent = s[i].parent
           /\ \A i, j \in 1..n :
                (s[i].parent # s[j].parent
                   /\ IsPrefix(s[i].parent, s[j].parent)) => i < j}

\* ModuleComponentLoader._load_components: every found module becomes a
\* fresh component stored under its derived name.
RECURSIVE _load_components(_, _, _)
_load_components(keys, comps, modules) ==
    IF modules = <<>>
    THEN [order |-> keys, units |-> comps]
    ELSE LET component == ModuleComponentOfPath(Head(modules))
             name == component.name
         IN  _load_components(
                 IF name \in Range(keys) THEN keys ELSE Append(keys, name),
                 [k \in DOMAIN comps \cup {name} |->
                     IF k = name THEN component ELSE comps[k]],
                 Tail(modules))

-----------------------------------------------------------------------------
\* Dependency resolution.

\* Variant: the ignore list is not consulted.
KeptDependenciesUnfiltered(dependencies, ignore) == dependencies

\* The names load_dependencies keeps: those not on the ignore list.
KeptDependencies(dependencies, ignore) ==
    {module \in dependencies : ~(ignore # {} /\ module \in ignore)}

\* The placeholder components of a set of names, added one by one.
RECURSIVE AddPlaceholders(_, _, _)
AddPlaceholders(tree, c, modules) ==
    IF modules = {}
    THEN c
    ELSE LET module == CHOOSE m \in modules : TRUE
         IN  AddPlaceholders(
                 tree,
                 add_dependency(c, ModuleComponentOfName(tree, module), FALSE),
                 modules \ {module})

\* ModuleComponent.load_dependencies: the outcomes it may have. It does
\* nothing once dependencies are recorded. The names are visited in the
\* set's iteration order, and building the placeholder of a name that cannot
\* be imported raises: the names recorded before that are any of the others.
load_dependencies(tree, src, c, ignore) ==
    IF c.external_dependencies # {}
    THEN {[component |-> c, raised |-> FALSE]}
    ELSE LET dependencies == get_dependencies(tree, src, c.path)
             kept == KeptDependencies(dependencies, ignore)
             failing == {module \in kept : NameRaises(tree, module)}
         IN  IF failing = {}
             THEN {[component |-> AddPlaceholders(tree, c, kept),
                    raised |-> FALSE]}
             ELSE {[component |-> AddPlaceholders(tree, c, done),
                    raised |-> TRUE] : done \in SUBSET (kept \ failing)}

\* Variant: the internal dependency is added to the component itself, not
\* to the component it depends on.
BackEdgesOnSelf(comps, component_name) ==
    [comps EXCEPT ![component_name].internal_dependencies =
        @ \cup (DOMAIN comps \cap
                  {d.name : d \in comps[component_name].external_dependencies})]

\* The loop over a component's recorded dependencies: each one that is a
\* discovered component receives the component as an internal dependency.
BackEdges(comps, component_name) ==
    [k \in DOMAIN comps |->
        IF \E d \in comps[component_name].external_dependencies : d.name = k
        THEN add_dependency(comps[k], component_name, TRUE)
        ELSE comps[k]]

RECURSIVE LoadDependenciesFrom(_, _, _, _, _, _)
LoadDependenciesFrom(tree, src, keys, comps, ignore, i) ==
    IF i > Len(keys)
    THEN {[units |-> comps, raised |-> FALSE]}
    ELSE UNION {
           LET comps1 == [comps EXCEPT ![keys[i]] = o.component]
           IN  IF o.raised
               THEN {[units |-> comps1, raised |-> TRUE]}
               ELSE LoadDependenciesFrom(tree, src, keys,
                        BackEdges(comps1, keys[i]), ignore, i + 1)
           : o \in load_dependencies(tree, src, comps[keys[i]], ignore)}

\* ModuleComponentLoader._load_dependencies: the outcomes it may have.
_load_dependencies(tree, src, keys, comps, ignore_argument) ==
    LoadDependenciesFrom(tree, src, keys, comps,
                         ignore_argument \cup ignore_dependencies, 1)

-----------------------------------------------------------------------------
\* Type classification.

\* ModuleComponent._is_abstract_class
_is_abstract_class(decl) == decl.abstract

RECURSIVE AddMembers(_, _, _)
AddMembers(c, members, self) ==
    IF members = <<>>
    THEN c
    ELSE LET obj == Head(members)
             obj_module == IF obj.module = <<>> THEN self.name ELSE obj.module
         IN  AddMembers(
                 IF ~depend_of(self, obj_module)
                 THEN add_class(c, obj.cls, _is_abstract_class(obj))
                 ELSE c,
                 Tail(members), self)

\* Variant: no early return once classes are recorded.
load_classes_unguarded(tree, src, c) ==
    AddMembers(c, src[ResolvedFile(tree, c.name)].classes, c)

\* ModuleComponent.load_classes
load_classes(tree, src, c) ==
    IF c.no_abstract_classes # <<>> \/ c.abstract_classes # <<>>
    THEN c
    ELSE AddMembers(c, src[ResolvedFile(tree, c.name)].classes, c)

\* ModuleComponentLoader._load_classes
_load_classes(tree, src, comps) ==
    [k \in DOMAIN comps |-> load_classes(tree, src, comps[k])]

-----------------------------------------------------------------------------
\* The metrics.

\* Component.calculate_instability: Ce / (Ce + Ca), 0 for an isolated
\* component; computed once.
calculate_instability(c) ==
    IF c.instability # NoValue
    THEN c
    ELSE LET ce == Cardinality(c.external_dependencies)
             ca == Cardinality(c.internal_dependencies)
         IN  [c EXCEPT !.instability =
                 IF ce + ca = 0 THEN <<0, 1>> ELSE Rat(ce, ce + ca)]

\* Component.calculate_abstraction: abstract types / declared types, 0 for
\* a component that declares none; computed once.
calculate_abstraction(c) ==
    IF c.abstraction # NoValue
    THEN c
    ELSE LET na == Len(c.abstract_classes)
             nc == Len(c.no_abstract_classes)
         IN  [c EXCEPT !.abstraction =
                 IF na + nc = 0 THEN <<0, 1>> ELSE Rat(na, na + nc)]

\* Component.get_distance: |A + I - 1|, from the memoized A and I;
\* computed once.
get_distance(c) ==
    IF c.distance # NoValue
    THEN c
    ELSE LET c1 == calculate_abstraction(calculate_instability(c))
         IN  [c1 EXCEPT !.distance =
                 RatAbs(RatSub(RatAdd(c1.abstraction, c1.instability),
                               <<1, 1>>))]

\* ModuleComponent.get_instability
get_instability(c) == calculate_instability(c)

\* ModuleComponent.get_abstraction
get_abstraction(tree, src, c) ==
    calculate_abstraction(load_classes(tree, src, c))

\* ASPoint(x, y, d)
ASPoint(x, y, d) == [x |-> x, y |-> y, d |-> d]

\* Variant: the point's coordinates are swapped.
get_as_plane_swapped(tree, src, comps) ==
    LET after == [k \in DOMAIN comps |->
                    get_distance(get_abstraction(tree, src,
                                     get_instability(comps[k])))]
    IN  [units |-> after,
         value |-> [k \in DOMAIN comps |->
                      ASPoint(after[k].abstraction, after[k].instability,
                              after[k].distance)]]

\* ModuleComponentLoader.get_as_plane: the components after the metrics were
\* taken, and the plane returned.
get_as_plane(tree, src, comps) ==
    LET after == [k \in DOMAIN comps |->
                    get_distance(get_abstraction(tree, src,
                                     get_instability(comps[k])))]
    IN  [units |-> after,
         value |-> [k \in DOMAIN comps |->
                      ASPoint(after[k].instability, after[k].abstraction,
                              after[k].distance)]]

\* round(x, decimals) of a non-negative x: the nearest multiple of
\* 10^-decimals, the even one of two equally near.
round(x, decimals) ==
    LET scale == Pow10(decimals)
        num == x[1] * scale
        q == num \div x[2]
        twice == 2 * (num - q * x[2])
        k == IF twice < x[2] THEN q
             ELSE IF twice > x[2] THEN q + 1
             ELSE IF q % 2 = 0 THEN q ELSE q + 1
    IN  Rat(k, scale)

\* Variant: the sum of the distances is not divided by their number.
calculate_main_distance_sum(keys, comps, decimals) ==
    LET after == [k \in DOMAIN comps |-> get_distance(comps[k])]
        distances == [i \in 1..Len(keys) |-> after[keys[i]].distance]
    IN  [units |-> after, value |-> round(RatSum(distances), decimals)]

\* ModuleComponentLoader.calculate_main_distance: the components after the
\* distances were taken, and the figure returned.
calculate_main_distance(keys, comps, decimals) ==
    LET after == [k \in DOMAIN comps |-> get_distance(comps[k])]
        distances == [i \in 1..Len(keys) |-> after[keys[i]].distance]
        main_distance ==
            IF distances # <<>>
            THEN LET total == RatSum(distances)
                 IN  Rat(total[1], total[2] * Len(distances))
            ELSE <<0, 1>>
    IN  [units |-> after, value |-> round(main_distance, decimals)]

-----------------------------------------------------------------------------
\* The state machine.

NoUnits == [k \in {} |-> 0]

NoResult == [op |-> "none", decimals |-> 0, value |-> <<>>]

NoComponent == [name |-> <<>>]

PyFiles == {f \in Files : f.suffix = ".py"}

\* The files discovery reads.
ReadFiles(tree) ==
    UNION {_find_py_modules(tree, d) : d \in PackageDirs(tree)}

\* The contents the files of a tree may have. A file that is never read is
\* taken empty, and a module importing Base from pkg.sub finds it declared
\* there.
SourceAssignments(tree) ==
    {src \in [PyFiles -> Sources] :
        /\ \A f \in PyFiles \ ReadFiles(tree) : src[f] = SrcEmpty
        /\ \A f \in ReadFiles(tree) :
              src[f] = SrcFrom =>
                 LET target == ResolvedFile(tree, <<"pkg", "sub">>)
                 IN  /\ target \in ReadFiles(tree)
                     /\ target # f
                     /\ src[target] = SrcAbstract}

InitLoader ==
    /\ order = <<>>
    /\ units = NoUnits
    /\ ignoreArg = {}
    /\ err = "none"
    /\ loaded = FALSE
    /\ result = NoResult

InitProbes ==
    /\ comp = NoComponent
    /\ back = NoComponent
    /\ dep = OtherNode
    /\ imports = {}

Init ==
    /\ fs \in SUBSET Files
    /\ source \in SourceAssignments(fs)
    /\ InitLoader
    /\ InitProbes

\* loader.load_components(ignore_dependencies=ignore) on the loader just
\* constructed: discovery, then dependency resolution, then type
\* classification. A loader serves one analysis run.
LoadComponents ==
    /\ ~loaded
    /\ err = "none"
    /\ \E ignore \in IgnoreLists, modules \in get_py_modules(fs) :
        LET found == _load_components(order, units, modules)
        IN  \E o \in _load_dependencies(fs, source, found.order,
                                        found.units, ignore) :
              /\ order' = found.order
              /\ units' = IF o.raised THEN o.units
                          ELSE _load_classes(fs, source, o.units)
              /\ err' = IF o.raised THEN "ModuleNotFoundError" ELSE "none"
              /\ loaded' = ~o.raised
              /\ ignoreArg' = ignore
              /\ result' = NoResult
              /\ UNCHANGED <<fs, source, comp, back, dep, imports>>

\* loader._load_dependencies(ignore) invoked again on the loaded graph.
LoadDependenciesAgain ==
    /\ loaded
    /\ \E o \in _load_dependencies(fs, source, order, units, ignoreArg) :
         /\ units' = o.units
         /\ err' = IF o.raised THEN "ModuleNotFoundError" ELSE "none"
         /\ loaded' = ~o.raised
    /\ result' = [op |-> "_load_dependencies", decimals |-> 0, value |-> <<>>]
    /\ UNCHANGED <<fs, source, order, ignoreArg, comp, back, dep, imports>>

\* loader._load_classes() invoked again on the loaded graph.
LoadClassesAgain ==
    /\ loaded
    /\ units' = _load_classes(fs, source, units)
    /\ result' = [op |-> "_load_classes", decimals |-> 0, value |-> <<>>]
    /\ UNCHANGED <<fs, source, order, ignoreArg, err, loaded,
                   comp, back, dep, imports>>

\* loader.get_as_plane()
GetAsPlane ==
    /\ err = "none"
    /\ LET r == get_as_plane(fs, source, units)
       IN  /\ units' = r.units
           /\ result' = [op |-> "get_as_plane", decimals |-> 0,
                         value |-> r.value]
    /\ UNCHANGED <<fs, source, order, ignoreArg, err, loaded,
                   comp, back, dep, imports>>

\* loader.calculate_main_distance(decimals)
CalculateMainDistance ==
    /\ err = "none"
    /\ \E decimals \in 0..MaxDecimals :
         LET r == calculate_main_distance(order, units, decimals)
         IN  /\ units' = r.units
             /\ result' = [op |-> "calculate_main_distance",
                           decimals |-> decimals, value |-> r.value]
    /\ UNCHANGED <<fs, source, order, ignoreArg, err, loaded,
                   comp, back, dep, imports>>

Next ==
    \/ LoadComponents
    \/ LoadDependenciesAgain
    \/ LoadClassesAgain
    \/ GetAsPlane
    \/ CalculateMainDistance

Spec == Init /\ [][Next]_vars

-----------------------------------------------------------------------------
\* A component built on its own: from a file's path, then from the name
\* derived for it.

InitNames ==
    /\ fs \in SUBSET Files
    /\ source = [f \in PyFiles |-> SrcEmpty]
    /\ InitLoader
    /\ InitProbes

\* ModuleComponent(path=p) for a file of the tree.
BuildFromPath ==
    /\ \E p \in fs : comp' = ModuleComponentOfPath(p)
    /\ back' = NoComponent
    /\ err' = "none"
    /\ UNCHANGED <<fs, source, order, units, ignoreArg, loaded, result,
                   dep, imports>>

\* ModuleComponent(name=comp.name)
BuildFromName ==
    /\ comp.name # <<>>
    /\ back.name = <<>>
    /\ err = "none"
    /\ IF NameRaises(fs, comp.name)
       THEN err' = "ModuleNotFoundError" /\ back' = back
       ELSE err' = err /\ back' = ModuleComponentOfName(fs, comp.name)
    /\ UNCHANGED <<fs, source, order, units, ignoreArg, loaded, result,
                   comp, dep, imports>>

NextNames == BuildFromPath \/ BuildFromName

SpecNames == InitNames /\ [][NextNames]_vars

-----------------------------------------------------------------------------
\* _eval_dependency on one node of a syntax tree.

Aliases == {<<"sub">>, <<"mod">>, <<"path">>, <<"Base">>}

ImportedNames == {<<"pkg", "sub">>, <<"os">>, <<"ghost">>}

FromModules == {<<"pkg">>, <<"pkg", "sub">>, <<"os">>, <<"ghost">>}

ListsOf(S) == UNION {[1..n -> S] : n \in 1..MaxAliases}

Nodes ==
    {Import(l) : l \in ListsOf(ImportedNames)}
      \cup {ImportFrom(m, l) : m \in FromModules, l \in ListsOf(Aliases)}
      \cup {OtherNode}

EvalDependency ==
    /\ dep = OtherNode
    /\ \E node \in Nodes :
         /\ dep' = node
         /\ imports' = _eval_dependency(fs, node)
    /\ UNCHANGED <<fs, source, order, units, ignoreArg, err, loaded, result,
                   comp, back>>

NextEval == EvalDependency

SpecEval == InitNames /\ [][NextEval]_vars

-----------------------------------------------------------------------------
\* Properties.

Ignored == ignoreArg \cup ignore_dependencies

ExternalNames(c) == {d.name : d \in c.external_dependencies}

\* The files of the tree that lie in a directory holding a marker file.
PackageSources ==
    {f \in fs : f.suffix = ".py" /\ Path(f.parent, "__init__", ".py") \in fs}

DeclaresNoType(name) == source[ResolvedFile(fs, name)].classes = <<>>

KeptImports(name) ==
    KeptDependencies(get_dependencies(fs, source, units[name].path), Ignored)

RECURSIVE SumOfDistances(_)
SumOfDistances(names) ==
    IF names = {}
    THEN <<0, 1>>
    ELSE LET n == CHOOSE x \in names : TRUE
         IN  RatAdd(units[n].distance, SumOfDistances(names \ {n}))

MeanDistance ==
    LET total == SumOfDistances(DOMAIN units)
    IN  Rat(total[1], total[2] * Cardinality(DOMAIN units))

\* C1: once load_components has run, for any two discovered units A and B,
\* if A's external dependencies hold a unit named B then B's internal
\* dependents hold A.
EdgeSymmetry ==
    loaded =>
       \A a, b \in DOMAIN units :
          b \in ExternalNames(units[a]) => a \in units[b].internal_dependencies

EdgeSymmetryWitness ==
    /\ loaded
    /\ \E a, b \in DOMAIN units :
          a # b /\ b \in ExternalNames(units[a])

\* C2, as claimed: after dependency resolution an ignored name (the caller's
\* list merged with abc, typing) has no unit and is in neither the outgoing
\* nor the incoming dependency set of any unit.
IgnoredNamesAbsent ==
    loaded =>
       \A n \in Ignored :
          /\ n \notin DOMAIN units
          /\ \A u \in DOMAIN units :
                /\ n \notin ExternalNames(units[u])
                /\ n \notin units[u].internal_dependencies

\* C2, amended: after dependency resolution an ignored name has no
\* placeholder unit and is in no unit's outgoing set; unless it names a
\* discovered unit, it has no unit at all and is in no incoming set.
IgnoredNamesNotDependedOn ==
    loaded =>
       \A n \in Ignored :
          /\ \A u \in DOMAIN units : n \notin ExternalNames(units[u])
          /\ n \notin DOMAIN units =>
                \A u \in DOMAIN units :
                   n \notin units[u].internal_dependencies

IgnoredNamesWitness ==
    /\ loaded
    /\ \E u \in DOMAIN units : \E n \in ignoreArg :
          /\ n \in get_dependencies(fs, source, units[u].path)
          /\ n \notin DOMAIN units

\* C3: when discovery derives one name for two files, the collision is
\* reported as a data-integrity error and the entry registered first is not
\* overwritten.
NameCollisionReported ==
    \A f, g \in PackageSources :
       (/\ f # g
        /\ _get_name_from_path(f) = _get_name_from_path(g)
        /\ _get_name_from_path(f) \in DOMAIN units)
          => /\ err = "DataIntegrityError"
             /\ Len(f.parent) < Len(g.parent)
                   => units[_get_name_from_path(f)].path = f

\* C4: an import whose target cannot be imported never aborts dependency
\* resolution: load_dependencies, the construction of the placeholder units
\* included, completes without raising.
UnresolvableImportNeverAborts ==
    (\E f \in PackageSources : \E i \in 1..Len(source[f].nodes) :
        \E n \in _eval_dependency(fs, source[f].nodes[i]) :
           ~Importable(fs, n))
       => err = "none"

\* C5: invoking the dependency-resolution pass or the type-classification
\* pass again on the loaded graph raises nothing and leaves every unit's
\* dependencies, dependents, declared types and cached metrics as they were.
PassesIdempotent ==
    [][result'.op \in {"_load_dependencies", "_load_classes"}
          => (units' = units /\ err' = "none")]_vars

PassesIdempotentWitness ==
    /\ result.op = "_load_classes"
    /\ \E u, v \in DOMAIN units :
          /\ units[u].external_dependencies = {}
          /\ units[u].abstract_classes = <<>>
          /\ units[u].no_abstract_classes = <<>>
          /\ units[v].external_dependencies # {}
          /\ units[v].internal_dependencies # {}
          /\ units[v].abstract_classes # <<>>

\* C6: pkg/sub/__init__.py derives pkg.sub and pkg/sub/mod.py derives
\* pkg.sub.mod, and the path derived back from either name is the file it
\* came from: the package's __init__.py, the module's .py file.
NameRoundTrip ==
    /\ comp.name # <<>> =>
          /\ comp.path = SubInit => comp.name = <<"pkg", "sub">>
          /\ comp.path = SubMod => comp.name = <<"pkg", "sub", "mod">>
    /\ (comp.name # <<>> /\ back.name # <<>>) =>
          /\ back.name = comp.name
          /\ (comp.path.stem = "__init__" /\ comp.path.suffix = ".py")
                => back.path = comp.path
          /\ (comp.path.stem # "__init__" /\ comp.path.suffix = ".py"
                /\ PackageFile(comp.name) \notin fs)
                => back.path = comp.path

\* C7: two discovered units A and B, A's only import being B, B importing
\* nothing and neither declaring a type: Ce(A)=1, Ca(A)=0, Ce(B)=0, Ca(B)=1,
\* and get_as_plane reports (1, 0, 0) for A and (0, 0, 1) for B.
TwoUnitScenario ==
    (loaded /\ result.op = "get_as_plane") =>
       \A a, b \in DOMAIN units :
          (/\ DOMAIN units = {a, b}
           /\ a # b
           /\ KeptImports(a) = {b}
           /\ KeptImports(b) = {}
           /\ DeclaresNoType(a)
           /\ DeclaresNoType(b))
             => /\ Cardinality(units[a].external_dependencies) = 1
                /\ Cardinality(units[a].internal_dependencies) = 0
                /\ Cardinality(units[b].external_dependencies) = 0
                /\ Cardinality(units[b].internal_dependencies) = 1
                /\ result.value[a] = ASPoint(<<1, 1>>, <<0, 1>>, <<0, 1>>)
                /\ result.value[b] = ASPoint(<<0, 1>>, <<0, 1>>, <<1, 1>>)

TwoUnitScenarioWitness ==
    /\ loaded
    /\ result.op = "get_as_plane"
    /\ \E a, b \in DOMAIN units :
          /\ DOMAIN units = {a, b}
          /\ a # b
          /\ KeptImports(a) = {b}
          /\ KeptImports(b) = {}
          /\ DeclaresNoType(a)
          /\ DeclaresNoType(b)

\* C8, as claimed: a tree without a package yields no unit and a main
\* distance of 0; otherwise calculate_main_distance returns the arithmetic
\* mean of the units' distances.
MainDistanceIsMean ==
    /\ (loaded /\ PackageSources = {}) => DOMAIN units = {}
    /\ result.op = "calculate_main_distance" =>
          result.value =
             IF DOMAIN units = {} THEN <<0, 1>> ELSE MeanDistance

\* C8, amended: a tree without a package yields no unit and a main distance
\* of 0; otherwise calculate_main_distance returns the arithmetic mean of
\* the units' distances rounded to `decimals` places: a multiple of
\* 10^-decimals at most half of 10^-decimals away from the mean.
MainDistanceIsRoundedMean ==
    /\ (loaded /\ PackageSources = {}) => DOMAIN units = {}
    /\ result.op = "calculate_main_distance" =>
          IF DOMAIN units = {}
          THEN result.value = <<0, 1>>
          ELSE LET scale == Pow10(result.decimals)
               IN  /\ scale % result.value[2] = 0
                   /\ RatLeq(RatAbs(RatSub(result.value, MeanDistance)),
                             <<1, 2 * scale>>)

MainDistanceWitness ==
    /\ loaded
    /\ result.op = "calculate_main_distance"
    /\ Cardinality(DOMAIN units) >= 2
    /\ result.value # MeanDistance

\* C9: after load_components the keys of the units mapping, and of the
\* plane get_as_plane returns, are exactly the names derived from the
\* source files lying in directories that hold a marker file; the later
\* passes add and remove none, and no placeholder is a key.
KeysAreDiscoveredNames ==
    /\ (loaded \/ err # "none") =>
          /\ DOMAIN units = {_get_name_from_path(f) : f \in PackageSources}
          /\ Range(order) = DOMAIN units
    /\ result.op = "get_as_plane" => DOMAIN result.value = DOMAIN units

KeysWitness ==
    /\ loaded
    /\ result.op = "get_as_plane"
    /\ SubNotes \in fs
    /\ PkgSubPy \in fs
    /\ PkgInit \notin fs
    /\ \E u \in DOMAIN units :
          ExternalNames(units[u]) \ DOMAIN units # {}

\* C10: a plain import contributes exactly its names; a qualified import
\* `from X import Y1, ..., Yn` records X.Yi for exactly the Yi that resolve
\* as modules, and records X if and only if some Yi failed to resolve.
EvalDependencyExact ==
    /\ dep.type = "Import" => imports = Range(dep.names)
    /\ dep.type = "ImportFrom" =>
          /\ \A i \in 1..Len(dep.names) :
                (dep.module \o dep.names[i] \in imports)
                   <=> Importable(fs, dep.module \o dep.names[i])
          /\ dep.module \in imports
                <=> \E i \in 1..Len(dep.names) :
                       ~Importable(fs, dep.module \o dep.names[i])
          /\ \A i \in 1..Len(dep.names) :
                \/ dep.module \o dep.names[i] \in imports
                \/ dep.module \in imports

====
